---- MODULE Spec2Model ----
(***************************************************************************)
(* The LRU state cache of turbo/shards/state_cache.go: an ordered index    *)
(* readWrites, an ordered index writes, and two binary heaps (reads and    *)
(* writes) that share one backing array and grow towards each other.       *)
(*                                                                         *)
(* Cache items are heap objects referenced by pointer from the backing     *)
(* array and from the two B-trees.  The model keeps them in the store      *)
(* `items` (a sequence of records); a pointer is an index into that store  *)
(* and Nil (0) is the nil interface value.  A Go panic stops the program:  *)
(* the state reached at the point of the panic is kept, `panicked` names   *)
(* the panic, and no operation runs afterwards.                            *)
(***************************************************************************)
EXTENDS Integers, Sequences, FiniteSets, TLC

\* ------------------------------------------------------------------ bounds
MaxAddr == 1          \* addresses are 1..MaxAddr
MaxIncarnation == 1   \* incarnations are 1..MaxIncarnation
MaxLocation == 1      \* storage locations are 1..MaxLocation
MaxVal == 2           \* non-zero values (account body, code blob, storage value)
MaxSeq == 3           \* SetXWrite/SetXDelete are taken while sequence < MaxSeq
MaxLimitReads == 1    \* NewStateCache is called with limitReads in 0..MaxLimitReads
MaxLimitWrites == 1   \* NewStateCache is called with limitWrites in 0..MaxLimitWrites

\* --------------------------------------------------------------- constants
ModifiedFlag == 1
DeletedFlag == 2

Nil == 0
NoPanic == "none"
PanicAlreadyPresent == "item must not be present in the cache before doing setRead"
PanicWriteBudget == "writes queue size must not go over limit. Commit writes before proceeding"
PanicIndex == "index out of range"
PanicNil == "nil pointer dereference"

VARIABLES
  items,        \* the cache items allocated and still referenced
  heapItems,    \* the shared backing array, indices 0..N-1, of item pointers
  readEnd,      \* readQueue.end
  writeStart,   \* writeQueue.start
  readWrites,   \* B-tree of all items: key -> item pointer (Nil: no entry)
  writes,       \* B-tree of written items: key -> item pointer (Nil: no entry)
  sequence,     \* sc.sequence
  limitReads,
  limitWrites,
  panicked,     \* NoPanic, or the panic that stopped the program
  last          \* the mutating call made last

vars == <<items, heapItems, readEnd, writeStart, readWrites, writes, sequence,
          limitReads, limitWrites, panicked, last>>

\* ------------------------------------------------------------ keys, values
Addrs == 1..MaxAddr
Vals == 1..MaxVal
ZeroVal == 0

AccountKey(a) == [class |-> "Account", address |-> a, incarnation |-> 0, location |-> 0]
CodeKey(a) == [class |-> "Code", address |-> a, incarnation |-> 0, location |-> 0]
StorageKey(a, inc, loc) == [class |-> "Storage", address |-> a, incarnation |-> inc, location |-> loc]

AccountKeys == {AccountKey(a) : a \in Addrs}
CodeKeys == {CodeKey(a) : a \in Addrs}
StorageKeys == {StorageKey(a, i, l) : a \in Addrs, i \in 1..MaxIncarnation, l \in 1..MaxLocation}
Keys == AccountKeys \cup CodeKeys \cup StorageKeys

\* Mutant of Less: at one address the code comes after the storage items.
LessCodeLast(k1, k2) ==
  IF k1.address # k2.address THEN k1.address < k2.address
  ELSE IF k1.class = "Account" THEN k2.class # "Account"
  ELSE IF k1.class = "Code" THEN FALSE
  ELSE \/ k2.class = "Code"
       \/ /\ k2.class = "Storage"
          /\ IF k1.incarnation = k2.incarnation
             THEN k1.location < k2.location
             ELSE k1.incarnation < k2.incarnation

\* Less of the three item types: address first; at one address the account,
\* then the code, then the storage items by incarnation and location.
Less(k1, k2) ==
  IF k1.address # k2.address THEN k1.address < k2.address
  ELSE IF k1.class = "Account" THEN k2.class # "Account"
  ELSE IF k1.class = "Code" THEN k2.class = "Storage"
  ELSE /\ k2.class = "Storage"
       /\ IF k1.incarnation = k2.incarnation
          THEN k1.location < k2.location
          ELSE k1.incarnation < k2.incarnation

RECURSIVE SetToSeq(_)
SetToSeq(S) == IF S = {} THEN <<>> ELSE LET x == CHOOSE x \in S : TRUE IN <<x>> \o SetToSeq(S \ {x})

\* The keys in ascending order, as Ascend visits them.
KeySeq == SortSeq(SetToSeq(Keys), Less)

HasFlag(flags, flag) == (flags \div flag) % 2 = 1
ClearFlags(flags, flag) == IF HasFlag(flags, flag) THEN flags - flag ELSE flags

\* --------------------------------------------------------- the cache record
\* The operations below are functions of the whole cache, written over a record
\* with one field per variable.
Cache == [items |-> items, heapItems |-> heapItems, readEnd |-> readEnd,
          writeStart |-> writeStart, readWrites |-> readWrites, writes |-> writes,
          sequence |-> sequence, limitReads |-> limitReads, limitWrites |-> limitWrites,
          panic |-> panicked]

N(s) == s.limitReads + s.limitWrites

Panic(s, msg) == IF s.panic # NoPanic THEN s ELSE [s EXCEPT !.panic = msg]

InRange(s, i) == i \in 0..(N(s) - 1)

\* What evaluating h.items[i].M() panics with, if it panics.
DerefPanic(s, i) ==
  IF ~InRange(s, i) THEN PanicIndex
  ELSE IF s.heapItems[i] = Nil THEN PanicNil
  ELSE NoPanic

\* h.items[i].SetQueuePos(p)
SetQueuePosAt(s, i, p) ==
  IF s.panic # NoPanic THEN s
  ELSE IF DerefPanic(s, i) # NoPanic THEN Panic(s, DerefPanic(s, i))
  ELSE [s EXCEPT !.items[s.heapItems[i]].queuePos = p]

\* h.items[i], h.items[j] = h.items[j], h.items[i]
SwapSlots(s, i, j) ==
  IF s.panic # NoPanic THEN s
  ELSE IF ~InRange(s, i) \/ ~InRange(s, j) THEN Panic(s, PanicIndex)
  ELSE [s EXCEPT !.heapItems = [s.heapItems EXCEPT ![i] = s.heapItems[j], ![j] = s.heapItems[i]]]

\* ------------------------------------------------------ ReadHeap, WriteHeap
ReadLen(s) == s.readEnd
WriteLen(s) == N(s) - s.writeStart
HLen(s, h) == IF h = "read" THEN ReadLen(s) ELSE WriteLen(s)

\* The array slot heap h compares at heap index i.
Slot(s, h, i) == IF h = "read" THEN i ELSE (N(s) - 1) - i

LessPanic(s, h, i, j) ==
  IF DerefPanic(s, Slot(s, h, i)) # NoPanic THEN DerefPanic(s, Slot(s, h, i))
  ELSE DerefPanic(s, Slot(s, h, j))

HLess(s, h, i, j) ==
  s.items[s.heapItems[Slot(s, h, i)]].sequence < s.items[s.heapItems[Slot(s, h, j)]].sequence

ReadHeapSwap(s, i, j) == SwapSlots(SetQueuePosAt(SetQueuePosAt(s, i, j), j, i), i, j)

\* WriteHeap.Swap sets the queue positions through the unreflected indices i and j
\* and swaps the reflected slots l-i and l-j.
WriteHeapSwap(s, i, j) ==
  LET l == N(s) - 1
  IN SwapSlots(SetQueuePosAt(SetQueuePosAt(s, i, j), j, i), l - i, l - j)

HSwap(s, h, i, j) == IF h = "read" THEN ReadHeapSwap(s, i, j) ELSE WriteHeapSwap(s, i, j)

ReadHeapPush(s, x) ==
  IF s.panic # NoPanic THEN s
  ELSE IF ~InRange(s, s.readEnd) THEN Panic(s, PanicIndex)
  ELSE [s EXCEPT !.heapItems[s.readEnd] = x, !.readEnd = s.readEnd + 1]

WriteHeapPush(s, x) ==
  IF s.panic # NoPanic THEN s
  ELSE LET s1 == [s EXCEPT !.writeStart = s.writeStart - 1]
       IN IF ~InRange(s1, s1.writeStart) THEN Panic(s1, PanicIndex)
          ELSE [s1 EXCEPT !.heapItems[s1.writeStart] = x]

HPush(s, h, x) == IF h = "read" THEN ReadHeapPush(s, x) ELSE WriteHeapPush(s, x)

\* Pop returns the new cache and the popped pointer; the slot keeps its pointer.
ReadHeapPop(s) ==
  IF s.panic # NoPanic THEN [s |-> s, x |-> Nil]
  ELSE LET s1 == [s EXCEPT !.readEnd = s.readEnd - 1]
       IN IF ~InRange(s1, s1.readEnd) THEN [s |-> Panic(s1, PanicIndex), x |-> Nil]
          ELSE [s |-> s1, x |-> s1.heapItems[s1.readEnd]]

WriteHeapPop(s) ==
  IF s.panic # NoPanic THEN [s |-> s, x |-> Nil]
  ELSE LET s1 == [s EXCEPT !.writeStart = s.writeStart + 1]
       IN IF ~InRange(s1, s1.writeStart - 1) THEN [s |-> Panic(s1, PanicIndex), x |-> Nil]
          ELSE [s |-> s1, x |-> s1.heapItems[s1.writeStart - 1]]

HPop(s, h) == IF h = "read" THEN ReadHeapPop(s) ELSE WriteHeapPop(s)

\* ---------------------------------------------------------- container/heap
\* Go's integer division truncates towards zero.
GoDiv(a, b) == IF a >= 0 THEN a \div b ELSE -((-a) \div b)

RECURSIVE up(_, _, _)
up(s, h, j) ==
  IF s.panic # NoPanic THEN s
  ELSE LET i == GoDiv(j - 1, 2)
       IN IF i = j THEN s
          ELSE IF LessPanic(s, h, j, i) # NoPanic THEN Panic(s, LessPanic(s, h, j, i))
          ELSE IF ~HLess(s, h, j, i) THEN s
          ELSE up(HSwap(s, h, i, j), h, i)

\* down returns the new cache and the index the element came to rest at.
RECURSIVE down(_, _, _, _)
down(s, h, i, n) ==
  IF s.panic # NoPanic THEN [s |-> s, i |-> i]
  ELSE LET j1 == 2 * i + 1
           j2 == j1 + 1
       IN IF j1 >= n \/ j1 < 0 THEN [s |-> s, i |-> i]
          ELSE IF j2 < n /\ LessPanic(s, h, j2, j1) # NoPanic
               THEN [s |-> Panic(s, LessPanic(s, h, j2, j1)), i |-> i]
          ELSE LET j == IF j2 < n /\ HLess(s, h, j2, j1) THEN j2 ELSE j1
               IN IF LessPanic(s, h, j, i) # NoPanic
                  THEN [s |-> Panic(s, LessPanic(s, h, j, i)), i |-> i]
                  ELSE IF ~HLess(s, h, j, i) THEN [s |-> s, i |-> i]
                  ELSE down(HSwap(s, h, i, j), h, j, n)

\* if !down(h, i, n) { up(h, i) }, d being what down returned
upUnlessMoved(d, h, i) == IF d.i > i THEN d.s ELSE up(d.s, h, i)

heapFix(s, h, i) == upUnlessMoved(down(s, h, i, HLen(s, h)), h, i)

upLast(s, h) == up(s, h, HLen(s, h) - 1)

heapPush(s, h, x) == upLast(HPush(s, h, x), h)

heapPop(s, h) == HPop(down(HSwap(s, h, 0, HLen(s, h) - 1), h, 0, HLen(s, h) - 1).s, h)

heapRemove(s, h, i) ==
  HPop(IF HLen(s, h) - 1 # i
       THEN upUnlessMoved(down(HSwap(s, h, i, HLen(s, h) - 1), h, i, HLen(s, h) - 1), h, i)
       ELSE s,
       h)

RECURSIVE initLoop(_, _, _, _)
initLoop(s, h, i, n) ==
  IF i < 0 THEN s ELSE initLoop(down(s, h, i, n).s, h, i - 1, n)

heapInit(s, h) ==
  LET n == HLen(s, h)
  IN initLoop(s, h, GoDiv(n, 2) - 1, n)

\* -------------------------------------------------------------- cache items
CacheItem(key, val, seq, pos, flags) ==
  [key |-> key, val |-> val, sequence |-> seq, queuePos |-> pos, flags |-> flags]

\* A pointer to a freshly allocated item is the next free index of the store.
NewPtr(s) == Len(s.items) + 1

\* The pointers the program still holds, in a fixed order: the backing array
\* (slots past the heaps keep their pointers), then the two B-trees in key order.
Refs(s) ==
  [i \in 1..N(s) |-> s.heapItems[i - 1]]
    \o [i \in 1..Len(KeySeq) |-> s.readWrites[KeySeq[i]]]
    \o [i \in 1..Len(KeySeq) |-> s.writes[KeySeq[i]]]

\* Items no pointer reaches are garbage; the store keeps the reachable ones,
\* numbered in the order Refs first names them (pointer values carry no meaning).
Collect(s) ==
  LET refs == Refs(s)
      firsts == {i \in DOMAIN refs : refs[i] # Nil /\ \A j \in 1..(i - 1) : refs[j] # refs[i]}
      rank(i) == Cardinality({j \in firsts : j <= i})
      old == [n \in 1..Cardinality(firsts) |-> refs[CHOOSE i \in firsts : rank(i) = n]]
      new(p) == IF p = Nil THEN Nil ELSE CHOOSE n \in DOMAIN old : old[n] = p
  IN [s EXCEPT !.items = [n \in DOMAIN old |-> s.items[old[n]]],
               !.heapItems = [i \in DOMAIN s.heapItems |-> new(s.heapItems[i])],
               !.readWrites = [k \in Keys |-> new(s.readWrites[k])],
               !.writes = [k \in Keys |-> new(s.writes[k])]]

\* ------------------------------------------------------------------ lookups
\* get: the item of readWrites under the key, unless absent or deleted.
get(s, key) ==
  IF s.readWrites[key] = Nil THEN Nil
  ELSE IF HasFlag(s.items[s.readWrites[key]].flags, DeletedFlag) THEN Nil
  ELSE s.readWrites[key]

GetAccountOf(s, key) ==
  IF get(s, key) # Nil THEN [val |-> s.items[get(s, key)].val, found |-> TRUE]
  ELSE [val |-> ZeroVal, found |-> FALSE]

GetStorageOf(s, key) ==
  IF get(s, key) # Nil THEN [val |-> s.items[get(s, key)].val, found |-> TRUE]
  ELSE [val |-> ZeroVal, found |-> FALSE]

\* GetCode answers (nil, true) when get finds nothing.
GetCodeOf(s, key) ==
  IF get(s, key) # Nil THEN [val |-> s.items[get(s, key)].val, found |-> TRUE]
  ELSE [val |-> ZeroVal, found |-> TRUE]

\* GetX for the key's variant.
GetOf(s, key) ==
  IF key.class = "Account" THEN GetAccountOf(s, key)
  ELSE IF key.class = "Storage" THEN GetStorageOf(s, key)
  ELSE GetCodeOf(s, key)

\* Mutant of lookupEffect: a hit is given the next sequence, as a write is.
lookupEffectTouching(s, key) ==
  IF get(s, key) = Nil THEN s
  ELSE [s EXCEPT !.items[get(s, key)].sequence = s.sequence, !.sequence = s.sequence + 1]

\* The cache after GetX(key): get and the three GetX read sc.readWrites and the
\* item found and assign to neither.
lookupEffect(s, key) == s

\* ------------------------------------------------------------ read insertion
\* sc.readWrites.Delete(sc.readQueue.items[0]); sc.readQueue.items[0] = item
replaceOldest(s, id) ==
  IF DerefPanic(s, 0) # NoPanic THEN Panic(s, DerefPanic(s, 0))
  ELSE [s EXCEPT !.readWrites[s.items[s.heapItems[0]].key] = Nil, !.heapItems[0] = id]

\* The item id, already in readWrites, takes a place in the read heap.
enqueueRead(s, id) ==
  IF ReadLen(s) >= s.limitReads
  THEN heapFix(replaceOldest(s, id), "read", 0)
  ELSE heapPush(s, "read", id)

\* Mutant of setRead: the presence check is left to the writes index.
setReadCheckingWrites(s, key, val, flags) ==
  IF s.writes[key] # Nil THEN Panic(s, PanicAlreadyPresent)
  ELSE enqueueRead([s EXCEPT !.items = Append(@, CacheItem(key, val, s.sequence, 0, flags)),
                             !.readWrites[key] = NewPtr(s)],
                   NewPtr(s))

setRead(s, key, val, flags) ==
  IF s.readWrites[key] # Nil THEN Panic(s, PanicAlreadyPresent)
  ELSE enqueueRead([s EXCEPT !.items = Append(@, CacheItem(key, val, s.sequence, 0, flags)),
                             !.readWrites[key] = NewPtr(s)],
                   NewPtr(s))

\* ----------------------------------------------------------- write insertion
\* The key is in writes: update in place and fix the write heap.
\* The value, the next sequence and the flags, written to an existing item.
touch(s, id, val, flags) ==
  [s EXCEPT !.items[id].val = val, !.items[id].sequence = s.sequence,
            !.items[id].flags = flags, !.sequence = s.sequence + 1]

fixWrite(s, id) == heapFix(s, "write", s.items[id].queuePos)

rewriteDirty(s, id, val, flags) == fixWrite(touch(s, id, val, flags), id)

\* The key is in readWrites only: update, take it off the read heap, push it on
\* the write heap.
\* existing.queuePos = sc.writeQueue.Len(); heap.Push(&sc.writeQueue, existing)
pushExisting(s, id) ==
  IF s.panic # NoPanic THEN s
  ELSE heapPush([s EXCEPT !.items[id].queuePos = WriteLen(s)], "write", id)

removeFromReads(s, id) == heapRemove(s, "read", s.items[id].queuePos).s

upgradeRead(s, id, val, flags) == pushExisting(removeFromReads(touch(s, id, val, flags), id), id)

\* sc.readWrites.Delete(heap.Pop(&sc.readQueue).(btree.Item))
\* readWrites.Delete of what Pop returned
deletePopped(p) ==
  IF p.s.panic # NoPanic THEN p.s
  ELSE IF p.x = Nil THEN Panic(p.s, PanicNil)
  ELSE [p.s EXCEPT !.readWrites[p.s.items[p.x].key] = Nil]

evictRead(s) == deletePopped(heapPop(s, "read"))

\* The key is in neither tree: budget check, eviction when the array is full,
\* a fresh item pushed on the write heap.  Returns the cache and the pointer.
\* A fresh item with the next sequence, pushed on the write heap.
pushFresh(s, key, val, flags) ==
  IF s.panic # NoPanic THEN [s |-> s, x |-> Nil]
  ELSE [s |-> heapPush([s EXCEPT !.items = Append(@, CacheItem(key, val, s.sequence, WriteLen(s), flags)),
                                 !.sequence = s.sequence + 1],
                       "write", NewPtr(s)),
        x |-> NewPtr(s)]

makeRoom(s) ==
  IF ReadLen(s) + WriteLen(s) >= s.limitReads + s.limitWrites THEN evictRead(s) ELSE s

\* Mutant of pushNewWrite: the budget check lets the write heap reach limitWrites + 1.
pushNewWriteOffByOne(s, key, val, flags) ==
  IF WriteLen(s) > s.limitWrites THEN [s |-> Panic(s, PanicWriteBudget), x |-> Nil]
  ELSE pushFresh(makeRoom(s), key, val, flags)

pushNewWrite(s, key, val, flags) ==
  IF WriteLen(s) >= s.limitWrites THEN [s |-> Panic(s, PanicWriteBudget), x |-> Nil]
  ELSE pushFresh(makeRoom(s), key, val, flags)

\* sc.readWrites.ReplaceOrInsert(&aci); sc.writes.ReplaceOrInsert(&aci)
insertBoth(r, key) ==
  IF r.s.panic # NoPanic THEN r.s
  ELSE [r.s EXCEPT !.readWrites[key] = r.x, !.writes[key] = r.x]

setAccountWrite(s, key, val) ==
  IF s.writes[key] # Nil THEN rewriteDirty(s, s.writes[key], val, ModifiedFlag)
  ELSE IF s.readWrites[key] # Nil THEN upgradeRead(s, s.readWrites[key], val, ModifiedFlag)
  ELSE insertBoth(pushNewWrite(s, key, val, ModifiedFlag), key)

\* A new deleted account gets DeletedFlag alone.
setAccountDelete(s, key) ==
  IF s.writes[key] # Nil THEN rewriteDirty(s, s.writes[key], ZeroVal, ModifiedFlag + DeletedFlag)
  ELSE IF s.readWrites[key] # Nil THEN upgradeRead(s, s.readWrites[key], ZeroVal, ModifiedFlag + DeletedFlag)
  ELSE insertBoth(pushNewWrite(s, key, ZeroVal, DeletedFlag), key)

\* A new storage item is pushed on the write heap and put in neither tree.
setStorageWrite(s, key, val) ==
  IF s.writes[key] # Nil THEN rewriteDirty(s, s.writes[key], val, ModifiedFlag)
  ELSE IF s.readWrites[key] # Nil THEN upgradeRead(s, s.readWrites[key], val, ModifiedFlag)
  ELSE pushNewWrite(s, key, val, ModifiedFlag).s

\* An existing storage item keeps its value; a new one gets DeletedFlag alone.
setStorageDelete(s, key) ==
  IF s.writes[key] # Nil
  THEN rewriteDirty(s, s.writes[key], s.items[s.writes[key]].val, ModifiedFlag + DeletedFlag)
  ELSE IF s.readWrites[key] # Nil
  THEN upgradeRead(s, s.readWrites[key], s.items[s.readWrites[key]].val, ModifiedFlag + DeletedFlag)
  ELSE pushNewWrite(s, key, ZeroVal, DeletedFlag).s

setCodeWrite(s, key, val) ==
  IF s.writes[key] # Nil THEN rewriteDirty(s, s.writes[key], val, ModifiedFlag)
  ELSE IF s.readWrites[key] # Nil THEN upgradeRead(s, s.readWrites[key], val, ModifiedFlag)
  ELSE pushNewWrite(s, key, val, ModifiedFlag).s

\* A code item found in writes gets ModifiedFlag alone.
setCodeDelete(s, key) ==
  IF s.writes[key] # Nil THEN rewriteDirty(s, s.writes[key], ZeroVal, ModifiedFlag)
  ELSE IF s.readWrites[key] # Nil THEN upgradeRead(s, s.readWrites[key], ZeroVal, ModifiedFlag + DeletedFlag)
  ELSE pushNewWrite(s, key, ZeroVal, ModifiedFlag + DeletedFlag).s

\* ------------------------------------------------------------------- commit
Min(a, b) == IF a < b THEN a ELSE b

\* Mutant of demoteWrites: ClearFlags is given both flags.
demoteWritesClearingDeleted(s) ==
  LET writeLen == WriteLen(s) - 1
      ws == {s.writes[k] : k \in Keys} \ {Nil}
  IN [s EXCEPT !.items = [id \in DOMAIN s.items |->
        IF id \in ws
        THEN [s.items[id] EXCEPT !.queuePos = s.readEnd + writeLen - @,
                                 !.flags = ClearFlags(ClearFlags(@, ModifiedFlag), DeletedFlag)]
        ELSE s.items[id]]]

\* The items of writes get their read-heap position and lose ModifiedFlag.
demoteWrites(s) ==
  LET writeLen == WriteLen(s) - 1
      ws == {s.writes[k] : k \in Keys} \ {Nil}
  IN [s EXCEPT !.items = [id \in DOMAIN s.items |->
        IF id \in ws
        THEN [s.items[id] EXCEPT !.queuePos = s.readEnd + writeLen - @,
                                 !.flags = ClearFlags(@, ModifiedFlag)]
        ELSE s.items[id]]]

\* copy(items[readEnd:], items[writeStart:]), then the two lengths.
mergeQueues(s) ==
  IF s.panic # NoPanic THEN s
  ELSE IF s.readEnd > N(s) \/ s.writeStart > N(s) \/ s.readEnd < 0 \/ s.writeStart < 0
  THEN Panic(s, PanicIndex)
  ELSE LET cnt == Min(N(s) - s.readEnd, N(s) - s.writeStart)
       IN [s EXCEPT !.heapItems = [i \in DOMAIN s.heapItems |->
                      IF i >= s.readEnd /\ i < s.readEnd + cnt
                      THEN s.heapItems[s.writeStart + (i - s.readEnd)]
                      ELSE s.heapItems[i]],
                    !.readEnd = s.readEnd + (N(s) - s.writeStart),
                    !.writeStart = N(s)]

turnWritesToReads(s) == heapInit(mergeQueues(demoteWrites(s)), "read")

\* ------------------------------------------------------------ specification
NoKey == [class |-> "None", address |-> 0, incarnation |-> 0, location |-> 0]

Call(op, key, val, found) == [op |-> op, key |-> key, val |-> val, found |-> found]

\* NewStateCache(degree, limitReads, limitWrites)
Init ==
  /\ limitReads \in 0..MaxLimitReads
  /\ limitWrites \in 0..MaxLimitWrites
  /\ items = <<>>
  /\ heapItems = [i \in 0..(limitReads + limitWrites - 1) |-> Nil]
  /\ readEnd = 0
  /\ writeStart = limitReads + limitWrites
  /\ readWrites = [k \in Keys |-> Nil]
  /\ writes = [k \in Keys |-> Nil]
  /\ sequence = 0
  /\ panicked = NoPanic
  /\ last = Call("NewStateCache", NoKey, ZeroVal, FALSE)

\* The variables take the fields of the cache s.
Install(s) ==
  /\ items' = s.items
  /\ heapItems' = s.heapItems
  /\ readEnd' = s.readEnd
  /\ writeStart' = s.writeStart
  /\ readWrites' = s.readWrites
  /\ writes' = s.writes
  /\ sequence' = s.sequence
  /\ panicked' = s.panic
  /\ UNCHANGED <<limitReads, limitWrites>>

\* The call returns (or panics) leaving the cache s.
Becomes(s) == Install(Collect(s))

Running == panicked = NoPanic

SetAccountRead ==
  \E k \in AccountKeys, v \in Vals :
    /\ Running
    /\ Becomes(setRead(Cache, k, v, 0))
    /\ last' = Call("SetAccountRead", k, v, FALSE)

SetAccountAbsent ==
  \E k \in AccountKeys :
    /\ Running
    /\ Becomes(setRead(Cache, k, ZeroVal, DeletedFlag))
    /\ last' = Call("SetAccountAbsent", k, ZeroVal, FALSE)

SetAccountWrite ==
  \E k \in AccountKeys, v \in Vals :
    /\ Running /\ sequence < MaxSeq
    /\ Becomes(setAccountWrite(Cache, k, v))
    /\ last' = Call("SetAccountWrite", k, v, FALSE)

SetAccountDelete ==
  \E k \in AccountKeys :
    /\ Running /\ sequence < MaxSeq
    /\ Becomes(setAccountDelete(Cache, k))
    /\ last' = Call("SetAccountDelete", k, ZeroVal, FALSE)

SetStorageRead ==
  \E k \in StorageKeys, v \in Vals :
    /\ Running
    /\ Becomes(setRead(Cache, k, v, 0))
    /\ last' = Call("SetStorageRead", k, v, FALSE)

SetStorageAbsent ==
  \E k \in StorageKeys :
    /\ Running
    /\ Becomes(setRead(Cache, k, ZeroVal, DeletedFlag))
    /\ last' = Call("SetStorageAbsent", k, ZeroVal, FALSE)

SetStorageWrite ==
  \E k \in StorageKeys, v \in Vals :
    /\ Running /\ sequence < MaxSeq
    /\ Becomes(setStorageWrite(Cache, k, v))
    /\ last' = Call("SetStorageWrite", k, v, FALSE)

SetStorageDelete ==
  \E k \in StorageKeys :
    /\ Running /\ sequence < MaxSeq
    /\ Becomes(setStorageDelete(Cache, k))
    /\ last' = Call("SetStorageDelete", k, ZeroVal, FALSE)

SetCodeRead ==
  \E k \in CodeKeys, v \in Vals :
    /\ Running
    /\ Becomes(setRead(Cache, k, v, 0))
    /\ last' = Call("SetCodeRead", k, v, FALSE)

SetCodeAbsent ==
  \E k \in CodeKeys :
    /\ Running
    /\ Becomes(setRead(Cache, k, ZeroVal, DeletedFlag))
    /\ last' = Call("SetCodeAbsent", k, ZeroVal, FALSE)

SetCodeWrite ==
  \E k \in CodeKeys, v \in Vals :
    /\ Running /\ sequence < MaxSeq
    /\ Becomes(setCodeWrite(Cache, k, v))
    /\ last' = Call("SetCodeWrite", k, v, FALSE)

SetCodeDelete ==
  \E k \in CodeKeys :
    /\ Running /\ sequence < MaxSeq
    /\ Becomes(setCodeDelete(Cache, k))
    /\ last' = Call("SetCodeDelete", k, ZeroVal, FALSE)

GetAccount ==
  \E k \in AccountKeys :
    /\ Running
    /\ Becomes(lookupEffect(Cache, k))
    /\ UNCHANGED last

GetStorage ==
  \E k \in StorageKeys :
    /\ Running
    /\ Becomes(lookupEffect(Cache, k))
    /\ UNCHANGED last

GetCode ==
  \E k \in CodeKeys :
    /\ Running
    /\ Becomes(lookupEffect(Cache, k))
    /\ UNCHANGED last

TurnWritesToReads ==
  /\ Running
  /\ Becomes(turnWritesToReads(Cache))
  /\ last' = Call("TurnWritesToReads", NoKey, ZeroVal, FALSE)

Next ==
  \/ SetAccountRead \/ SetAccountAbsent \/ SetAccountWrite \/ SetAccountDelete
  \/ SetStorageRead \/ SetStorageAbsent \/ SetStorageWrite \/ SetStorageDelete
  \/ SetCodeRead \/ SetCodeAbsent \/ SetCodeWrite \/ SetCodeDelete
  \/ GetAccount \/ GetStorage \/ GetCode
  \/ TurnWritesToReads

Spec == Init /\ [][Next]_vars

\* ------------------------------------------------------------------- claims
WriteOps == {"SetAccountWrite", "SetStorageWrite", "SetCodeWrite"}
DeleteOps == {"SetAccountDelete", "SetStorageDelete", "SetCodeDelete"}
ReadOps == {"SetAccountRead", "SetStorageRead", "SetCodeRead",
            "SetAccountAbsent", "SetStorageAbsent", "SetCodeAbsent"}

Modified(p) == HasFlag(items[p].flags, ModifiedFlag)
Deleted(p) == HasFlag(items[p].flags, DeletedFlag)

\* The pointers held by the read heap and by the write heap.
ReadHeapPtrs == {heapItems[i] : i \in 0..(readEnd - 1)}
WriteHeapPtrs == {heapItems[i] : i \in writeStart..(limitReads + limitWrites - 1)}

\* What lookups can see of readWrites: per key, no entry, or its value and DELETED flag.
Visible ==
  [k \in Keys |-> IF readWrites[k] = Nil THEN <<"none">>
                  ELSE <<"entry", items[readWrites[k]].val, Deleted(readWrites[k])>>]

Results == [k \in Keys |-> GetOf(Cache, k)]

\* C1: for every variant, a GetX(k) issued right after a SetXWrite(k, v) that
\* returned gives back v, found.
C1_WriteRoundTrip ==
  (last.op \in WriteOps /\ panicked = NoPanic)
    => GetOf(Cache, last.key) = [val |-> last.val, found |-> TRUE]

\* C2: no SetXRead, SetXAbsent, SetXWrite or SetXDelete removes from readWrites
\* an entry whose MODIFIED flag is set; only entries with MODIFIED clear are evicted.
C2_DirtyNeverEvicted ==
  [][\A k \in Keys :
       (/\ readWrites[k] # Nil
        /\ Modified(readWrites[k])
        /\ last'.op \in ReadOps \cup WriteOps \cup DeleteOps)
         => readWrites'[k] # Nil]_vars

\* C3: after TurnWritesToReads has returned, no item of readWrites and no item
\* of either heap has MODIFIED set.
C3_NoModifiedAfterCommit ==
  (last.op = "TurnWritesToReads" /\ panicked = NoPanic)
    => /\ \A k \in Keys : readWrites[k] # Nil => ~Modified(readWrites[k])
       /\ \A p \in ReadHeapPtrs \cup WriteHeapPtrs : ~Modified(p)

\* C4: after TurnWritesToReads has returned, the writes index is empty.
C4_WritesEmptyAfterCommit ==
  (last.op = "TurnWritesToReads" /\ panicked = NoPanic)
    => \A k \in Keys : writes[k] = Nil

\* C5: TurnWritesToReads leaves readWrites as lookups see it: the same keys,
\* values and DELETED flags, hence the same result of every GetX.
C5_CommitKeepsReadWrites ==
  [][last'.op = "TurnWritesToReads" => (Visible' = Visible /\ Results' = Results)]_vars

\* C5 witness: a commit has returned with a written entry in readWrites.
C5_Witness ==
  /\ last.op = "TurnWritesToReads"
  /\ panicked = NoPanic
  /\ \E k \in Keys : readWrites[k] # Nil /\ writes[k] = readWrites[k] /\ ~Deleted(readWrites[k])
  /\ \E k \in Keys : readWrites[k] # Nil /\ Deleted(readWrites[k])

\* C6: with the write heap at (or over) limitWrites, SetXWrite or SetXDelete of a
\* key in neither tree panics with the commit-before-proceeding failure, and the
\* trees, the array, both heap bounds, the items and the sequence are as before.
C6_WriteBudgetFatal ==
  [][(/\ panicked = NoPanic
      /\ last'.op \in WriteOps \cup DeleteOps
      /\ (limitReads + limitWrites) - writeStart >= limitWrites
      /\ readWrites[last'.key] = Nil
      /\ writes[last'.key] = Nil)
       => /\ panicked' = PanicWriteBudget
          /\ UNCHANGED <<items, heapItems, readEnd, writeStart, readWrites, writes, sequence>>]_vars

\* C6 witness: a write of an uncached key has hit a full write heap that holds an entry.
C6_Witness ==
  /\ panicked = PanicWriteBudget
  /\ last.op \in WriteOps \cup DeleteOps
  /\ limitWrites >= 1
  /\ (limitReads + limitWrites) - writeStart = limitWrites
  /\ readWrites[last.key] = Nil /\ writes[last.key] = Nil

\* C7: the write heap and the writes index never hold more than limitWrites entries.
C7_WritesWithinLimit ==
  panicked = NoPanic
    => /\ (limitReads + limitWrites) - writeStart <= limitWrites
       /\ Cardinality({k \in Keys : writes[k] # Nil}) <= limitWrites

\* C8: the read heap never holds more than limitReads entries, also after a commit.
C8_ReadsWithinLimit == panicked = NoPanic => readEnd <= limitReads

\* C9: readWrites never holds more than limitReads + limitWrites entries.
C9_ReadWritesWithinCapacity ==
  panicked = NoPanic
    => Cardinality({k \in Keys : readWrites[k] # Nil}) <= limitReads + limitWrites

\* C10: the read region and the write region of the array never overlap.
C10_RegionsDisjoint == panicked = NoPanic => readEnd <= writeStart

\* The pointers a cache s holds in its read heap and in its write heap.
ReadPtrsOf(s) == {s.heapItems[i] : i \in 0..(s.readEnd - 1)}
WritePtrsOf(s) == {s.heapItems[i] : i \in s.writeStart..(N(s) - 1)}

\* The keys that have an entry in readWrites, and in writes.
CachedKeys(s) == {k \in Keys : s.readWrites[k] # Nil}
DirtyKeys(s) == {k \in Keys : s.writes[k] # Nil}

\* What SetXRead(k, v) and SetXAbsent(k) hand to setRead.
ReadInputs == [val : Vals, flags : {0}] \cup [val : {ZeroVal}, flags : {DeletedFlag}]

\* The write heap and the writes index of t are those of s, items included.
WritesUntouched(s, t) ==
  /\ t.writeStart = s.writeStart
  /\ t.writes = s.writes
  /\ \A i \in s.writeStart..(N(s) - 1) : t.heapItems[i] = s.heapItems[i]
  /\ \A p \in (WritePtrsOf(s) \cup {s.writes[k] : k \in Keys}) \ {Nil} : t.items[p] = s.items[p]

\* From s to t one entry left the cache, the read-heap entry p of minimum
\* sequence, and the entry of key came in.
EvictsOneRead(s, t, key) ==
  /\ t.panic = NoPanic
  /\ Cardinality(CachedKeys(s) \ CachedKeys(t)) = 1
  /\ \E p \in ReadPtrsOf(s) \ {Nil} :
       /\ s.readWrites[s.items[p].key] = p
       /\ CachedKeys(s) \ CachedKeys(t) = {s.items[p].key}
       /\ \A q \in ReadPtrsOf(s) \ {Nil} : s.items[p].sequence <= s.items[q].sequence
       /\ p \notin ReadPtrsOf(t)
  /\ CachedKeys(t) \ CachedKeys(s) = {key}
  /\ t.readWrites[key] \in ReadPtrsOf(t)
  /\ t.readEnd = s.readEnd
  /\ WritesUntouched(s, t)

\* C11: a SetXRead or SetXAbsent of an uncached key that finds the read heap at
\* limitReads entries removes exactly one entry, the read-heap entry of minimum
\* sequence, from readWrites and from the read heap, admits the new entry and
\* leaves every write entry alone.
C11_EvictionOnReadInsertion ==
  panicked = NoPanic =>
    \A key \in Keys, in \in ReadInputs :
      (readEnd = limitReads /\ readWrites[key] = Nil)
        => EvictsOneRead(Cache, setRead(Cache, key, in.val, in.flags), key)

SetReadOps == {"SetAccountRead", "SetStorageRead", "SetCodeRead"}
SetAbsentOps == {"SetAccountAbsent", "SetStorageAbsent", "SetCodeAbsent"}

\* C12: with limitReads >= 1, a GetX(k) issued right after a SetXRead(k, v) that
\* returned (k was not in readWrites) gives back v, found: the insertion does
\* not remove its own entry.
C12_ReadRoundTrip ==
  (last.op \in SetReadOps /\ panicked = NoPanic /\ limitReads >= 1)
    => GetOf(Cache, last.key) = [val |-> last.val, found |-> TRUE]

\* SetXWrite(k, v) and SetXDelete(k) for the key's variant.
WriteOf(s, key, val) ==
  IF key.class = "Account" THEN setAccountWrite(s, key, val)
  ELSE IF key.class = "Storage" THEN setStorageWrite(s, key, val)
  ELSE setCodeWrite(s, key, val)

DeleteOf(s, key) ==
  IF key.class = "Account" THEN setAccountDelete(s, key)
  ELSE IF key.class = "Storage" THEN setStorageDelete(s, key)
  ELSE setCodeDelete(s, key)

\* t, reached from s by two writes of key, returns val for it and has one more
\* dirty entry than s.
OverwrittenOnce(s, t, key, val) ==
  /\ t.panic = NoPanic
  /\ GetOf(t, key) = [val |-> val, found |-> TRUE]
  /\ Cardinality(DirtyKeys(t)) = Cardinality(DirtyKeys(s)) + 1

\* C13: for every variant, SetXWrite(k, v1); SetXWrite(k, v2) on a key that was
\* not cached (with write budget left) makes GetX(k) return v2 and grows the
\* writes index by exactly one entry.
C13_OverwriteDirtyKey ==
  panicked = NoPanic =>
    \A key \in Keys, v1 \in Vals, v2 \in Vals :
      (readWrites[key] = Nil /\ writes[key] = Nil /\ WriteLen(Cache) < limitWrites)
        => OverwrittenOnce(Cache, WriteOf(WriteOf(Cache, key, v1), key, v2), key, v2)

\* The keys readWrites holds a tombstone for: an entry with DELETED set.
Tombstones == {k \in Keys : Visible[k][1] = "entry" /\ Visible[k][3]}

\* C14: for every variant, a SetXDelete(k) called with write budget left
\* returns, leaves in readWrites an entry for k with DELETED set, and GetX(k)
\* then returns no value.
C14_DeleteLeavesTombstone ==
  [][(/\ panicked = NoPanic
      /\ last'.op \in DeleteOps
      /\ (limitReads + limitWrites) - writeStart < limitWrites)
       => /\ panicked' = NoPanic
          /\ last'.key \in Tombstones'
          /\ Results'[last'.key].val = ZeroVal]_vars

\* What GetX(key) returns in s, and what it returns for a key of the same
\* variant that has no entry in readWrites.
MissOf(s, key) == GetOf([s EXCEPT !.readWrites[key] = Nil], key)

\* The keys readWrites holds with a value: an entry with DELETED clear.
Hits == {k \in Keys : Visible[k][1] = "entry" /\ ~Visible[k][3]}

\* C15: for every variant, GetX of a key cached as a tombstone returns something
\* else than GetX of a key that is not in the cache, and a hit with a value
\* differs from both.
C15_ThreeOutcomes ==
  panicked = NoPanic =>
    /\ \A k \in Tombstones : GetOf(Cache, k) # MissOf(Cache, k)
    /\ \A k \in Hits : GetOf(Cache, k) # MissOf(Cache, k)
    /\ \A k \in Hits, d \in Tombstones : GetOf(Cache, k) # GetOf(Cache, d)

\* C16: GetCode reports found only for an address whose code entry is in
\* readWrites with DELETED clear; never-inserted addresses and tombstones give
\* found = false.
C16_GetCodeFound ==
  \A k \in CodeKeys : GetCodeOf(Cache, k).found => k \in Hits

\* t holds for key a dirty entry that is no tombstone, with value val.
HoldsDirtyValue(t, key, val) ==
  /\ t.panic = NoPanic
  /\ t.readWrites[key] # Nil
  /\ t.items[t.readWrites[key]].flags = ModifiedFlag
  /\ GetOf(t, key) = [val |-> val, found |-> TRUE]

\* C17: for every variant, after SetXDelete(k); SetXWrite(k, v) (called with
\* write budget left) the entry of k has DELETED clear and MODIFIED set and
\* GetX(k) returns v.
C17_WriteOverwritesTombstone ==
  panicked = NoPanic =>
    \A key \in Keys, v \in Vals :
      WriteLen(Cache) < limitWrites
        => HoldsDirtyValue(WriteOf(DeleteOf(Cache, key), key, v), key, v)

\* The flags of the entry readWrites holds for each key (-1 when it holds none).
EntryFlags == [k \in Keys |-> IF readWrites[k] = Nil THEN -1 ELSE items[readWrites[k]].flags]

\* C18: for every variant and on each path (key dirty, key a clean read, key
\* not cached), the entry of k right after a SetXDelete(k) that returned has
\* both MODIFIED and DELETED set.
C18_DeleteIsDirtyTombstone ==
  (last.op \in DeleteOps /\ panicked = NoPanic)
    => EntryFlags[last.key] = ModifiedFlag + DeletedFlag

\* From s to t the clean read p of key, and no other entry, went from the read
\* heap to the write heap and into writes; readWrites kept its size.
Upgraded(s, t, key, p) ==
  /\ t.panic = NoPanic
  /\ ReadPtrsOf(t) = ReadPtrsOf(s) \ {p}
  /\ t.readEnd = s.readEnd - 1
  /\ WritePtrsOf(t) = WritePtrsOf(s) \cup {p}
  /\ t.writes[key] = p
  /\ t.readWrites[key] = p
  /\ Cardinality(CachedKeys(t)) = Cardinality(CachedKeys(s))
  /\ Cardinality(DirtyKeys(t)) = Cardinality(DirtyKeys(s)) + 1

\* The keys cached as clean reads: in readWrites and the read heap, not in
\* writes, MODIFIED clear.
CleanReads ==
  {k \in Keys : /\ readWrites[k] # Nil
                /\ writes[k] = Nil
                /\ readWrites[k] \in ReadHeapPtrs
                /\ ~Modified(readWrites[k])}

\* C19: a SetXWrite or SetXDelete of a key cached as a clean read (with write
\* budget left) moves that entry, and no other, from the read heap to the write
\* heap and into writes, keeps |readWrites|, grows |writes| by one, and GetX(k)
\* gives the new value (no value after a delete).
C19_UpgradeCleanRead ==
  panicked = NoPanic =>
    \A key \in CleanReads :
      WriteLen(Cache) < limitWrites =>
        /\ \A v \in Vals :
             /\ Upgraded(Cache, WriteOf(Cache, key, v), key, readWrites[key])
             /\ GetOf(WriteOf(Cache, key, v), key) = [val |-> v, found |-> TRUE]
        /\ Upgraded(Cache, DeleteOf(Cache, key), key, readWrites[key])
        /\ GetOf(DeleteOf(Cache, key), key).val = ZeroVal

\* C20: a SetXRead or SetXAbsent of a key that readWrites already holds (clean
\* read, dirty write or tombstone) panics, and readWrites, writes, both heaps,
\* the items and the sequence are as before the call.
C20_DoubleReadFatal ==
  [][(/\ panicked = NoPanic
      /\ last'.op \in ReadOps
      /\ readWrites[last'.key] # Nil)
       => /\ panicked' = PanicAlreadyPresent
          /\ UNCHANGED <<items, heapItems, readEnd, writeStart, readWrites, writes, sequence>>]_vars

\* C20 witness: a read insertion has panicked on a key held as a clean read.
C20_Witness ==
  /\ panicked = PanicAlreadyPresent
  /\ last.op \in ReadOps
  /\ last.key \in CleanReads
  /\ \E k \in Keys \ {last.key} : readWrites[k] # Nil /\ Modified(readWrites[k])

\* C21: GetAccount, GetStorage and GetCode, on a hit, a tombstone or a miss,
\* leave readWrites, writes, the array and both heap bounds, every item's
\* sequence, queue position and flags, and the sequence counter as they were.
C21_LookupsReadOnly ==
  panicked = NoPanic => \A k \in Keys : Collect(lookupEffect(Cache, k)) = Cache

\* C21 witness: lookups meet a hit in the read heap, a tombstone and a miss.
C21_Witness ==
  /\ panicked = NoPanic
  /\ \E k \in Hits : readWrites[k] \in ReadHeapPtrs /\ readEnd > 1
  /\ Tombstones # {}
  /\ \E k \in Keys : readWrites[k] = Nil

\* C22: for every variant, with limitReads >= 1, a SetXAbsent(k) of a key not in
\* readWrites leaves an entry for k with DELETED set and MODIFIED clear that
\* holds one slot of the read heap, and GetX(k) returns no value.
C22_NegativeCaching ==
  (last.op \in SetAbsentOps /\ panicked = NoPanic /\ limitReads >= 1)
    => /\ EntryFlags[last.key] = DeletedFlag
       /\ Cardinality({i \in 0..(readEnd - 1) : heapItems[i] = readWrites[last.key]}) = 1
       /\ Results[last.key].val = ZeroVal

\* ------------------------------------------------- the order of the B-trees
MaxOrderAddr == 2
MaxOrderIncarnation == 2
MaxOrderLocation == 2

\* Keys of the three variants over several addresses, incarnations and locations.
OrderKeys ==
  [class : {"Account", "Code"}, address : 1..MaxOrderAddr, incarnation : {0}, location : {0}]
    \cup [class : {"Storage"}, address : 1..MaxOrderAddr,
          incarnation : 1..MaxOrderIncarnation, location : 1..MaxOrderLocation]

\* a.Less(b) and b.Less(a), as a B-tree calls them on two items.
LessCall(a, b) == [op |-> "Less", a |-> a, b |-> b, less |-> Less(a, b), greater |-> Less(b, a)]

LessInit ==
  /\ limitReads = 0
  /\ limitWrites = 0
  /\ items = <<>>
  /\ heapItems = <<>>
  /\ readEnd = 0
  /\ writeStart = 0
  /\ readWrites = [k \in Keys |-> Nil]
  /\ writes = [k \in Keys |-> Nil]
  /\ sequence = 0
  /\ panicked = NoPanic
  /\ last = Call("NewStateCache", NoKey, ZeroVal, FALSE)

CompareItems ==
  /\ \E a \in OrderKeys, b \in OrderKeys : last' = LessCall(a, b)
  /\ UNCHANGED <<items, heapItems, readEnd, writeStart, readWrites, writes, sequence,
                 limitReads, limitWrites, panicked>>

LessSpec == LessInit /\ [][CompareItems]_vars

\* The order the keys are to have: address, then Account < Code < Storage,
\* then incarnation, then location, compared lexicographically.
ClassRank(k) == IF k.class = "Account" THEN 0 ELSE IF k.class = "Code" THEN 1 ELSE 2

Before(a, b) ==
  \/ a.address < b.address
  \/ /\ a.address = b.address
     /\ \/ ClassRank(a) < ClassRank(b)
        \/ /\ ClassRank(a) = ClassRank(b)
           /\ \/ a.incarnation < b.incarnation
              \/ a.incarnation = b.incarnation /\ a.location < b.location

\* C23: Less over the items of the three variants is a strict total order on
\* keys: irreflexive, transitive, exactly one of a<b, b<a, same key holds, and it
\* orders by address, then Account < Code < Storage, then incarnation, then
\* location.
C23_LessStrictTotalOrder ==
  last.op = "Less" =>
    /\ last.a = last.b => ~last.less
    /\ Cardinality({x \in {"less", "greater", "same"} :
                      \/ x = "less" /\ last.less
                      \/ x = "greater" /\ last.greater
                      \/ x = "same" /\ last.a = last.b}) = 1
    /\ \A c \in OrderKeys : (last.less /\ Less(last.b, c)) => Less(last.a, c)
    /\ last.less = Before(last.a, last.b)

\* C23 witness: a code item was compared with a storage item of its address.
C23_Witness ==
  /\ last.op = "Less"
  /\ last.a.class = "Code" /\ last.b.class = "Storage"
  /\ last.a.address = last.b.address
  /\ last.less /\ ~last.greater

\* ------------------------------------------- writes of one address, then commit
NeighbourWrites == 3

\* NewStateCache with room for an account, its code and a storage slot.
NeighbourInit ==
  /\ limitReads = MaxLimitReads
  /\ limitWrites = NeighbourWrites
  /\ items = <<>>
  /\ heapItems = [i \in 0..(limitReads + limitWrites - 1) |-> Nil]
  /\ readEnd = 0
  /\ writeStart = limitReads + limitWrites
  /\ readWrites = [k \in Keys |-> Nil]
  /\ writes = [k \in Keys |-> Nil]
  /\ sequence = 0
  /\ panicked = NoPanic
  /\ last = Call("NewStateCache", NoKey, ZeroVal, FALSE)

NeighbourNext == SetAccountWrite \/ SetCodeWrite \/ SetStorageWrite \/ TurnWritesToReads

NeighbourSpec == NeighbourInit /\ [][NeighbourNext]_vars

\* The keys AscendGreaterOrEqual(key) visits in readWrites, in order.
IterationFrom(key) ==
  SelectSeq(KeySeq, LAMBDA k : ~Less(k, key) /\ readWrites[k] # Nil)

\* The keys of the items the cache still holds a pointer to.
HeldKeys == {items[p].key : p \in DOMAIN items}

\* C24: once the account, the code and a storage slot of one address have been
\* written and TurnWritesToReads has run, ascending iteration over readWrites
\* from the account key yields the account, then the code, then the storage
\* slot, all with MODIFIED clear.
C24_NeighbourhoodIteration ==
  (/\ last.op = "TurnWritesToReads"
   /\ panicked = NoPanic
   /\ HeldKeys = {AccountKey(1), CodeKey(1), StorageKey(1, 1, 1)})
    => /\ IterationFrom(AccountKey(1)) = <<AccountKey(1), CodeKey(1), StorageKey(1, 1, 1)>>
       /\ \A k \in Keys : readWrites[k] # Nil => ~Modified(readWrites[k])

\* The number of slots of the read heap, and of the write heap, that hold p.
ReadSlotsOf(p) == Cardinality({i \in 0..(readEnd - 1) : heapItems[i] = p})
WriteSlotsOf(p) == Cardinality({i \in writeStart..(limitReads + limitWrites - 1) : heapItems[i] = p})

\* C25: every item of readWrites is in exactly one heap: in the read heap if
\* and only if MODIFIED is clear, in the write heap if and only if it is set.
C25_HeapFollowsModified ==
  panicked = NoPanic =>
    \A k \in Keys :
      readWrites[k] # Nil =>
        /\ (readWrites[k] \in ReadHeapPtrs) # (readWrites[k] \in WriteHeapPtrs)
        /\ (readWrites[k] \in ReadHeapPtrs) = ~Modified(readWrites[k])
        /\ (readWrites[k] \in WriteHeapPtrs) = Modified(readWrites[k])

\* C26: every item of writes is the item readWrites holds for the key and has
\* MODIFIED set, and every item of readWrites with MODIFIED set is in writes.
C26_WritesIsDirtySet ==
  panicked = NoPanic =>
    \A k \in Keys :
      /\ writes[k] # Nil => (readWrites[k] = writes[k] /\ Modified(writes[k]))
      /\ (readWrites[k] # Nil /\ Modified(readWrites[k])) => writes[k] = readWrites[k]

\* C27: for every item held in a heap, the slot its queuePos addresses in its
\* own heap (queuePos in the read heap, N-1-queuePos in the write heap) holds
\* that item.
C27_QueuePosAccurate ==
  panicked = NoPanic =>
    /\ \A i \in 0..(readEnd - 1) :
         heapItems[i] # Nil =>
           /\ items[heapItems[i]].queuePos \in 0..(readEnd - 1)
           /\ heapItems[items[heapItems[i]].queuePos] = heapItems[i]
    /\ \A i \in writeStart..(limitReads + limitWrites - 1) :
         heapItems[i] # Nil =>
           /\ items[heapItems[i]].queuePos \in 0..(limitReads + limitWrites - 1 - writeStart)
           /\ heapItems[limitReads + limitWrites - 1 - items[heapItems[i]].queuePos] = heapItems[i]

\* The sequence of the item at position i of the read heap, and of the write heap.
ReadSeqAt(i) == items[heapItems[i]].sequence
WriteSeqAt(i) == items[heapItems[limitReads + limitWrites - 1 - i]].sequence

\* C28: both heaps are min-heaps on sequence: the item at the parent position
\* (i-1)/2 of every position i > 0 has a sequence no greater than the item at i.
C28_MinHeapOnSequence ==
  panicked = NoPanic =>
    /\ \A i \in 1..(readEnd - 1) : ReadSeqAt((i - 1) \div 2) <= ReadSeqAt(i)
    /\ \A i \in 1..(limitReads + limitWrites - writeStart - 1) :
         WriteSeqAt((i - 1) \div 2) <= WriteSeqAt(i)

\* The items readWrites holds.
LiveItems == {readWrites[k] : k \in Keys} \ {Nil}

\* C29: no two live items share a sequence: every SetXRead, SetXAbsent,
\* SetXWrite and SetXDelete gives the item it touches a sequence greater than
\* every sequence assigned before.
C29_SequencesUnique ==
  panicked = NoPanic =>
    \A p \in LiveItems, q \in LiveItems : p # q => items[p].sequence # items[q].sequence

\* C30: every item held in a slot of either heap is the item readWrites holds
\* for its key, and no item holds more than one slot of the array.
C30_SlotOwnership ==
  panicked = NoPanic =>
    \A p \in (ReadHeapPtrs \cup WriteHeapPtrs) \ {Nil} :
      /\ readWrites[items[p].key] = p
      /\ ReadSlotsOf(p) + WriteSlotsOf(p) = 1

\* From s to t the items at positions i and j of heap h exchanged their queue
\* positions, and no other item's queue position changed.
SwapsPositions(s, t, h, i, j) ==
  /\ t.panic = NoPanic
  /\ t.items[s.heapItems[Slot(s, h, i)]].queuePos = j
  /\ t.items[s.heapItems[Slot(s, h, j)]].queuePos = i
  /\ \A r \in DOMAIN s.items \ {s.heapItems[Slot(s, h, i)], s.heapItems[Slot(s, h, j)]} :
       t.items[r].queuePos = s.items[r].queuePos

\* C31: Swap(i, j) on the read heap or on the write heap gives the item that
\* was at position i the queue position j and the item that was at j the queue
\* position i, and changes the queue position of no other item.
C31_SwapUpdatesQueuePos ==
  panicked = NoPanic =>
    \A h \in {"read", "write"} :
      \A i \in 0..(HLen(Cache, h) - 1), j \in 0..(HLen(Cache, h) - 1) :
        (/\ i # j
         /\ InRange(Cache, Slot(Cache, h, i)) /\ Cache.heapItems[Slot(Cache, h, i)] # Nil
         /\ InRange(Cache, Slot(Cache, h, j)) /\ Cache.heapItems[Slot(Cache, h, j)] # Nil)
          => SwapsPositions(Cache, HSwap(Cache, h, i, j), h, i, j)

\* The keys that are dirty: the item writes holds is the one readWrites holds,
\* it has MODIFIED set and sits in the write heap.
DirtyEntries ==
  {k \in Keys : /\ writes[k] # Nil
                /\ readWrites[k] = writes[k]
                /\ Modified(writes[k])
                /\ writes[k] \in WriteHeapPtrs}

\* From s to t the dirty entry of key was rewritten in place: no panic, the
\* same item, a sequence above every other live item, heaps and indexes of the
\* same size.
RewrittenInPlace(s, t, key) ==
  /\ t.panic = NoPanic
  /\ t.writes[key] = s.writes[key] /\ t.readWrites[key] = s.writes[key]
  /\ \A k \in CachedKeys(t) \ {key} :
       t.items[t.readWrites[k]].sequence < t.items[t.writes[key]].sequence
  /\ t.readEnd = s.readEnd /\ t.writeStart = s.writeStart
  /\ CachedKeys(t) = CachedKeys(s) /\ DirtyKeys(t) = DirtyKeys(s)

\* C32: SetXWrite or SetXDelete of a key that is in writes completes without a
\* panic, updates that entry's value in place, gives it a sequence greater than
\* that of every other live item, and leaves the lengths of both heaps and the
\* sizes of both indexes as they were.
C32_RewriteDirtyKey ==
  panicked = NoPanic =>
    \A key \in DirtyEntries :
      /\ \A v \in Vals :
           /\ RewrittenInPlace(Cache, WriteOf(Cache, key, v), key)
           /\ WriteOf(Cache, key, v).items[writes[key]].val = v
      /\ RewrittenInPlace(Cache, DeleteOf(Cache, key), key)

\* From s to t one entry left the cache, the read-heap entry of minimum
\* sequence, and the entry of key came in as a write.
EvictsForWrite(s, t, key) ==
  /\ t.panic = NoPanic
  /\ \E p \in ReadPtrsOf(s) \ {Nil} :
       /\ s.readWrites[s.items[p].key] = p
       /\ CachedKeys(s) \ CachedKeys(t) = {s.items[p].key}
       /\ \A q \in ReadPtrsOf(s) \ {Nil} : s.items[p].sequence <= s.items[q].sequence
       /\ p \notin ReadPtrsOf(t)
  /\ t.readEnd = s.readEnd - 1
  /\ CachedKeys(t) \ CachedKeys(s) = {key}
  /\ t.readWrites[key] \in WritePtrsOf(t)
  /\ t.writes[key] = t.readWrites[key]
  /\ t.writeStart = s.writeStart - 1

\* C33: a SetXWrite or SetXDelete of an uncached key, called with the write heap
\* below limitWrites and the two heaps together at limitReads + limitWrites,
\* evicts exactly one entry, the read-heap entry of minimum sequence, from the
\* read heap and from readWrites, and admits the new dirty entry.
C33_NewWriteUnderFullBudget ==
  panicked = NoPanic =>
    \A key \in Keys :
      (/\ readWrites[key] = Nil /\ writes[key] = Nil
       /\ WriteLen(Cache) < limitWrites
       /\ ReadLen(Cache) + WriteLen(Cache) = limitReads + limitWrites)
        => /\ \A v \in Vals : EvictsForWrite(Cache, WriteOf(Cache, key, v), key)
           /\ EvictsForWrite(Cache, DeleteOf(Cache, key), key)

\* --------------------------------------------- a cache with room for two reads
WideReads == 2

WideInit ==
  /\ limitReads = WideReads
  /\ limitWrites \in 0..MaxLimitWrites
  /\ items = <<>>
  /\ heapItems = [i \in 0..(limitReads + limitWrites - 1) |-> Nil]
  /\ readEnd = 0
  /\ writeStart = limitReads + limitWrites
  /\ readWrites = [k \in Keys |-> Nil]
  /\ writes = [k \in Keys |-> Nil]
  /\ sequence = 0
  /\ panicked = NoPanic
  /\ last = Call("NewStateCache", NoKey, ZeroVal, FALSE)

WideNext ==
  SetAccountRead \/ SetStorageRead \/ SetCodeRead \/ SetAccountWrite \/ TurnWritesToReads

WideSpec == WideInit /\ [][WideNext]_vars

\* From s to t one read entry left the read heap and readWrites, the entry of
\* key was stored, and the write heap kept its items.
EvictsSomeRead(s, t, key) ==
  /\ t.panic = NoPanic
  /\ \E p \in ReadPtrsOf(s) \ {Nil} :
       /\ s.readWrites[s.items[p].key] = p
       /\ CachedKeys(s) \ CachedKeys(t) = {s.items[p].key}
       /\ p \notin ReadPtrsOf(t)
  /\ CachedKeys(t) \ CachedKeys(s) = {key}
  /\ t.readWrites[key] \in ReadPtrsOf(t)
  /\ WritePtrsOf(t) = WritePtrsOf(s)

\* C34: a SetXRead or SetXAbsent of an uncached key, called with the two heaps
\* together at limitReads + limitWrites entries and a read entry to give up,
\* evicts one read entry before the new one is stored, also when the read heap
\* alone is below limitReads.
C34_ReadUnderFullBudget ==
  panicked = NoPanic =>
    \A key \in Keys, in \in ReadInputs :
      (/\ readWrites[key] = Nil
       /\ ReadLen(Cache) >= 1
       /\ ReadLen(Cache) + WriteLen(Cache) = limitReads + limitWrites)
        => EvictsSomeRead(Cache, setRead(Cache, key, in.val, in.flags), key)

\* The number of slots among the indices S of the array of s that hold p.
SlotsHolding(s, S, p) == Cardinality({i \in S : s.heapItems[i] = p})

\* t is s with the write heap merged into the read heap: the write heap empty,
\* the read heap as long as both were, holding each item as often as the two
\* heaps of s held it.
Merged(s, t) ==
  /\ t.panic = NoPanic
  /\ t.writeStart = N(s)
  /\ t.readEnd = ReadLen(s) + WriteLen(s)
  /\ ReadPtrsOf(t) = ReadPtrsOf(s) \cup WritePtrsOf(s)
  /\ \A p \in ReadPtrsOf(t) :
       SlotsHolding(t, 0..(t.readEnd - 1), p)
         = SlotsHolding(s, 0..(s.readEnd - 1), p) + SlotsHolding(s, s.writeStart..(N(s) - 1), p)

\* C35: after TurnWritesToReads the write heap is empty (writeQueue.start = N),
\* the read heap is as long as the two heaps were together, and it holds the
\* items of both, none lost and none duplicated.
C35_CommitMergesHeaps ==
  panicked = NoPanic => Merged(Cache, turnWritesToReads(Cache))

\* In t the entry of key is dirty: in the write heap, not in the read heap,
\* MODIFIED set.
DirtyIn(t, key) ==
  /\ t.panic = NoPanic
  /\ t.readWrites[key] # Nil
  /\ t.readWrites[key] \in WritePtrsOf(t)
  /\ t.readWrites[key] \notin ReadPtrsOf(t)
  /\ HasFlag(t.items[t.readWrites[key]].flags, ModifiedFlag)

\* No read insertion into t, nor a second one after it, removes the entry of key.
SurvivesReads(t, key) ==
  \A k2 \in Keys, in2 \in ReadInputs :
    (t.panic = NoPanic /\ t.readWrites[k2] = Nil) =>
      /\ setRead(t, k2, in2.val, in2.flags).readWrites[key] # Nil
      /\ \A k3 \in Keys :
           (/\ setRead(t, k2, in2.val, in2.flags).panic = NoPanic
            /\ setRead(t, k2, in2.val, in2.flags).readWrites[k3] = Nil)
             => setRead(setRead(t, k2, in2.val, in2.flags), k3, in2.val, in2.flags).readWrites[key] # Nil

\* C36: after SetXWrite(k, v1); TurnWritesToReads(); SetXWrite(k, v2) on a key
\* that was not cached (with write budget left), the entry of k is in the write
\* heap and not in the read heap, has MODIFIED set, and no later read insertion
\* removes it.
C36_WriteAfterCommitIsDirty ==
  panicked = NoPanic =>
    \A key \in Keys, v1 \in Vals, v2 \in Vals :
      (readWrites[key] = Nil /\ writes[key] = Nil /\ WriteLen(Cache) < limitWrites)
        => /\ DirtyIn(WriteOf(turnWritesToReads(WriteOf(Cache, key, v1)), key, v2), key)
           /\ SurvivesReads(WriteOf(turnWritesToReads(WriteOf(Cache, key, v1)), key, v2), key)

\* s2 holds the clean reads b and c, b inserted before c; s3 is s2 after one
\* more read insertion: c has not been evicted while b stays.
OlderGoesFirst(s2, s3, b, c) ==
  (/\ s3.panic = NoPanic
   /\ s3.readWrites[b] = s2.readWrites[b])
    => s3.readWrites[c] = s2.readWrites[c]

\* s after SetXRead(key, v) for some value v.
ReadOf(s, key) == setRead(s, key, 1, 0)

\* C37: of two clean reads that are not rewritten, the one inserted earlier is
\* evicted no later than the other: after SetXRead(b); SetXRead(c), both cached,
\* no further read insertion evicts c while b stays cached.
C37_EvictionFollowsInsertionOrder ==
  panicked = NoPanic =>
    \A b \in Keys, c \in Keys, d \in Keys :
      (/\ readWrites[b] = Nil
       /\ ReadOf(Cache, b).panic = NoPanic
       /\ ReadOf(Cache, b).readWrites[c] = Nil
       /\ ReadOf(ReadOf(Cache, b), c).panic = NoPanic
       /\ ReadOf(ReadOf(Cache, b), c).readWrites[b] # Nil
       /\ ReadOf(ReadOf(Cache, b), c).readWrites[c] # Nil
       /\ ReadOf(ReadOf(Cache, b), c).readWrites[d] = Nil)
        => OlderGoesFirst(ReadOf(ReadOf(Cache, b), c),
                          ReadOf(ReadOf(ReadOf(Cache, b), c), d), b, c)

====
